---- MODULE Spec2Model ----
(***************************************************************************)
(* State-machine model of src/mab/sampling.py: Sampler.make_sample,        *)
(* SamplerSet.get_samples and the get_samples methods of GaussianSampler,  *)
(* KdeSampler and ToolSampler.                                             *)
(*                                                                         *)
(* The module is Python 2 code (map and zip return lists).  Real numbers   *)
(* are modelled by small integers.  A parameter written with '%1.5f' is    *)
(* modelled by its value in units of 10^-5, the unformatted value by its   *)
(* value in units of 10^-6.  The fields of the sample buffer are text.     *)
(***************************************************************************)
EXTENDS Integers, Sequences, FiniteSets, TLC

VARIABLES
    attribute_names,   \* Sampler.attribute_names (shared by the samplers)
    constants,         \* Sampler.constants: function name -> value
    samplers,          \* SamplerSet.samplers: sequence of sampler kinds
    param_buffer,      \* the file at ToolSampler.param_buffer
    sample_buffer,     \* the file at ToolSampler.sample_buffer
    pc,                \* per call: position inside get_samples
    sampler,           \* per call: kind of the sampler get_samples runs on
    count,             \* per call: the argument of get_samples
    parameter_values,  \* per call: local parameter_values (unformatted)
    tool_in,           \* per call: what the running script read
    tool_run,          \* per call: how the script run ended
    effects,           \* per call: calls and file accesses made so far
    ret,               \* per call: the outcome of get_samples
    set_pc,            \* SamplerSet.get_samples: idle, running, done
    sample_counts,     \* SamplerSet.get_samples: its argument
    set_idx,           \* SamplerSet.get_samples: position in the zip
    set_ret            \* SamplerSet.get_samples: the outcome

cfg_vars  == <<attribute_names, constants, samplers>>
file_vars == <<param_buffer, sample_buffer>>
call_vars == <<pc, sampler, count, parameter_values, tool_in, tool_run,
               effects, ret>>
set_vars  == <<set_pc, sample_counts, set_idx, set_ret>>
vars      == <<cfg_vars, file_vars, call_vars, set_vars>>

----------------------------------------------------------------------------
(* Bounds and value domains *)

\* largest count passed to get_samples
MaxCount == 2

\* longest sample_counts passed to SamplerSet.get_samples
MaxCounts == 3

\* the callers: call 1 is the single thread of the sequential program,
\* call 2 a second thread (SpecConc only)
Calls == {1, 2}

\* values a random draw (normal, kde resample) can take
Draws == {1, 2}

\* ToolSampler.params, in units of 10^-6
Params == <<20>>

\* noise steps of the noise model, in units of 10^-6
Noise == {0 - 16, 16}

Min(a, b) == IF a <= b THEN a ELSE b

Range(s) == {s[i] : i \in DOMAIN s}

NoFile == [exists |-> FALSE]

Ok(samples) == [status |-> "ok", samples |-> samples]

Raised(error) == [status |-> error, samples |-> <<>>]

NoRet == [status |-> "none", samples |-> <<>>]

\* the script has not run in this call
NotRun == [code |-> "none", wrote |-> FALSE]

\* the script ended with exit status code (the value subprocess.call returns
\* and get_samples drops), having written the sample buffer or not
Exited(code, wrote) == [code |-> code, wrote |-> wrote]

Count(seq, x) == Cardinality({i \in DOMAIN seq : seq[i] = x})

----------------------------------------------------------------------------
(* Sampler.make_sample *)

\* dict(zip(attribute_names, attribute_values)): zip stops at the shorter
\* argument, and a repeated name keeps its last value
ZipDict(names, values) ==
    LET n == Min(Len(names), Len(values))
        keys == {names[i] : i \in 1..n}
        last(k) == CHOOSE i \in 1..n :
                      /\ names[i] = k
                      /\ \A j \in 1..n : names[j] = k => j <= i
    IN  [k \in keys |-> values[last(k)]]

\* attributes.update(self.constants)
DictUpdate(d, c) ==
    [k \in DOMAIN d \cup DOMAIN c |-> IF k \in DOMAIN c THEN c[k] ELSE d[k]]

\* Sample(attributes, metric_function, valid_function)
Sample(attributes) == [attributes |-> attributes]

make_sample(attribute_values) ==
    Sample(DictUpdate(ZipDict(attribute_names, attribute_values), constants))

\* map(self.make_sample, rows)
MapMakeSample(rows) == [i \in 1..Len(rows) |-> make_sample(rows[i])]

\* zip(*data): the rows of a list of columns
ZipStar(data) ==
    IF Len(data) = 0 THEN <<>>
    ELSE LET n == CHOOSE m \in {Len(data[c]) : c \in 1..Len(data)} :
                     \A c \in 1..Len(data) : m <= Len(data[c])
         IN  [r \in 1..n |-> [c \in 1..Len(data) |-> data[c][r]]]

----------------------------------------------------------------------------
(* GaussianSampler.get_samples *)

\* the vectors one draw of the multivariate normal can give: one value per
\* mean, attribute_means being aligned with attribute_names
NormalVectors == {[j \in 1..Len(attribute_names) |-> v + j - 1] : v \in Draws}

\* np.random.multivariate_normal(means, cov, int(count)): count vectors
NormalDraws(n) == [1..n -> NormalVectors]

GaussianResults(n) ==
    IF n = 0 THEN {Ok(<<>>)}
    ELSE {Ok(MapMakeSample(samples)) : samples \in NormalDraws(n)}

----------------------------------------------------------------------------
(* KdeSampler *)

\* attribute_data holds historical data for every attribute name
AttributeDataNames == Range(attribute_names)

\* KdeSampler.__init__: one estimate per name of attribute_data that is not
\* a constant
kde_estimates == {name \in AttributeDataNames : name \notin DOMAIN constants}

\* what kde_estimates[name].resample(count).tolist()[0] can give: count values
Resamples(n) == {[r \in 1..n |-> v + r - 1] : v \in Draws}

\* data as the loop of KdeSampler.get_samples leaves it
KdeData(data) == [error |-> "none", data |-> data]

\* the loop of KdeSampler.get_samples from position i on, data being the
\* columns appended so far: the final data, or the KeyError raised by
\* self.kde_estimates[name] for a name without an estimate (resample[i] is
\* what kde_estimates[name].resample(count) returns at position i)
RECURSIVE KdeLoop(_, _, _, _)
KdeLoop(i, n, resample, data) ==
    IF i > Len(attribute_names) THEN KdeData(data)
    ELSE LET name == attribute_names[i]
             d1 == IF name \in DOMAIN constants
                   THEN Append(data, [r \in 1..n |-> constants[name]])
                   ELSE data
         IN  IF name \notin kde_estimates
             THEN [error |-> "KeyError", data |-> d1]
             ELSE KdeLoop(i + 1, n, resample, Append(d1, resample[i]))

KdeResults(n) ==
    IF n = 0 THEN {Ok(<<>>)}
    ELSE {LET loop == KdeLoop(1, n, resample, <<>>)
          IN  IF loop.error # "none" THEN Raised(loop.error)
              ELSE Ok(MapMakeSample(ZipStar(loop.data)))
          : resample \in [1..Len(attribute_names) -> Resamples(n)]}

----------------------------------------------------------------------------
(* ToolSampler: the collaborators *)

\* NoiseModel.add_noise(params, count): count vectors around params; one
\* outcome per noise step d, vector i being perturbed by i steps
add_noise(params, n) ==
    {[i \in 1..n |-> [j \in 1..Len(params) |-> params[j] + d * i]] :
        d \in Noise}

\* '%1.5f' % v: v (units of 10^-6) rounded to 5 decimals (units of 10^-5),
\* ties to even
Fmt(v) ==
    LET q == v \div 10
        r == v % 10
    IN  IF r > 5 \/ (r = 5 /\ q % 2 = 1) THEN q + 1 ELSE q

\* np.savetxt(f, parameter_values, delimiter = ',', fmt = '%1.5f')
SaveTxt(values) ==
    [i \in 1..Len(values) |-> [j \in 1..Len(values[i]) |-> Fmt(values[i][j])]]

\* the file opened with "a": the new table after the old content
WriteParamsAppend(old, values) ==
    [exists |-> TRUE,
     rows   |-> (IF old.exists THEN old.rows ELSE <<>>) \o SaveTxt(values)]

\* open(self.param_buffer, "w+") and savetxt: the file holds the new table only
WriteParams(old, values) == [exists |-> TRUE, rows |-> SaveTxt(values)]

\* the text of a number 0..9 in the sample buffer
Digits == <<"0", "1", "2", "3", "4", "5", "6", "7", "8", "9">>

Text(n) == Digits[(n % 10) + 1]

\* float(field): defined on numeric text only
IsFloat(field) == field \in Range(Digits)

Float(field) == CHOOSE n \in 0..9 : Digits[n + 1] = field

\* The external tool's contract: it reads the parameter buffer and writes
\* the sample buffer, a header row and one row of measurements per
\* parameter vector.
Measure(input) ==
    [exists |-> TRUE,
     header |-> attribute_names,
     rows   |-> IF input.exists
                THEN [i \in 1..Len(input.rows) |->
                        [j \in 1..Len(attribute_names) |->
                            Text(input.rows[i][1] + j)]]
                ELSE <<>>]

\* a header that differs from attribute_names
OtherHeader == <<"z">> \o Tail(attribute_names)

\* what a tool that breaks the contract can leave in the rows
DropLast(rows) == IF Len(rows) = 0 THEN rows ELSE SubSeq(rows, 1, Len(rows) - 1)

ExtraRow(rows) == Append(rows, [j \in 1..Len(attribute_names) |-> "0"])

ShortRow(row) == IF Len(row) <= 1 THEN <<"">> ELSE SubSeq(row, 1, Len(row) - 1)

ShortFirst(rows) == [i \in 1..Len(rows) |-> IF i = 1 THEN ShortRow(rows[i]) ELSE rows[i]]

GarbleFirst(rows) ==
    [i \in 1..Len(rows) |->
        IF i = 1 THEN [j \in 1..Len(rows[i]) |-> IF j = 1 THEN "x" ELSE rows[i][j]]
        ELSE rows[i]]

\* every table the tool may write after reading input
ToolTables(input) ==
    LET good == Measure(input)
    IN  {[exists |-> TRUE, header |-> h, rows |-> r] :
            h \in {good.header, OtherHeader},
            r \in {good.rows, DropLast(good.rows), ExtraRow(good.rows),
                   ShortFirst(good.rows), GarbleFirst(good.rows)}}

----------------------------------------------------------------------------
(* Initial state *)

Kinds == {"Gaussian", "Kde", "Tool"}

\* constants: no constant, a constant that is also an attribute name, a
\* constant that is not
ConstantsChoices ==
    {[k \in {} |-> 0], [k \in {"b"} |-> 7], [k \in {"c"} |-> 7]}

Init ==
    /\ attribute_names \in {<<"a">>, <<"a", "b">>}
    /\ constants \in ConstantsChoices
    /\ samplers = <<"Gaussian", "Tool">>
    /\ param_buffer = NoFile
    /\ sample_buffer = NoFile
    /\ pc = [p \in Calls |-> "idle"]
    /\ sampler = [p \in Calls |-> "none"]
    /\ count = [p \in Calls |-> 0]
    /\ parameter_values = [p \in Calls |-> <<>>]
    /\ tool_in = [p \in Calls |-> NoFile]
    /\ tool_run = [p \in Calls |-> NotRun]
    /\ effects = [p \in Calls |-> <<>>]
    /\ ret = [p \in Calls |-> NoRet]
    /\ set_pc = "idle"
    /\ sample_counts = <<>>
    /\ set_idx = 0
    /\ set_ret = NoRet

----------------------------------------------------------------------------
(* get_samples of the three samplers, for call p *)

CanCall(p) == pc[p] \in {"idle", "done"}

Done(p) == pc[p] = "done"

\* a call that starts: its locals are fresh
Enter(p, kind, n) ==
    /\ sampler' = [sampler EXCEPT ![p] = kind]
    /\ count' = [count EXCEPT ![p] = n]
    /\ tool_in' = [tool_in EXCEPT ![p] = NoFile]
    /\ tool_run' = [tool_run EXCEPT ![p] = NotRun]

\* a call that returns (or raises) in the step it starts in
Return(p, r) ==
    /\ pc' = [pc EXCEPT ![p] = "done"]
    /\ ret' = [ret EXCEPT ![p] = r]

GaussianGetSamples(p, n) ==
    /\ CanCall(p)
    /\ Enter(p, "Gaussian", n)
    /\ \E r \in GaussianResults(n) : Return(p, r)
    /\ parameter_values' = [parameter_values EXCEPT ![p] = <<>>]
    /\ effects' = [effects EXCEPT ![p] = <<>>]
    /\ UNCHANGED <<cfg_vars, file_vars>>

KdeGetSamples(p, n) ==
    /\ CanCall(p)
    /\ Enter(p, "Kde", n)
    /\ \E r \in KdeResults(n) : Return(p, r)
    /\ parameter_values' = [parameter_values EXCEPT ![p] = <<>>]
    /\ effects' = [effects EXCEPT ![p] = <<>>]
    /\ UNCHANGED <<cfg_vars, file_vars>>

\* ToolSampler.get_samples without its test of count == 0
ToolGetSamplesUnguarded(p, n) ==
    /\ CanCall(p)
    /\ Enter(p, "Tool", n)
    /\ \E values \in add_noise(Params, n) :
          parameter_values' = [parameter_values EXCEPT ![p] = values]
    /\ effects' = [effects EXCEPT ![p] = <<"add_noise">>]
    /\ pc' = [pc EXCEPT ![p] = "write"]
    /\ ret' = [ret EXCEPT ![p] = NoRet]
    /\ UNCHANGED <<cfg_vars, file_vars>>

\* ToolSampler.get_samples up to the noise model's answer
ToolGetSamples(p, n) ==
    /\ CanCall(p)
    /\ Enter(p, "Tool", n)
    /\ IF n = 0
       THEN /\ Return(p, Ok(<<>>))
            /\ parameter_values' = [parameter_values EXCEPT ![p] = <<>>]
            /\ effects' = [effects EXCEPT ![p] = <<>>]
       ELSE /\ \E values \in add_noise(Params, n) :
                 parameter_values' = [parameter_values EXCEPT ![p] = values]
            /\ effects' = [effects EXCEPT ![p] = <<"add_noise">>]
            /\ pc' = [pc EXCEPT ![p] = "write"]
            /\ ret' = [ret EXCEPT ![p] = NoRet]
    /\ UNCHANGED <<cfg_vars, file_vars>>

\* a write that waits while another call is between its write and its read
ToolWriteLocked(p) ==
    /\ pc[p] = "write"
    /\ \A q \in Calls \ {p} : pc[q] \notin {"call", "running", "read"}
    /\ param_buffer' = WriteParams(param_buffer, parameter_values[p])
    /\ effects' = [effects EXCEPT ![p] = Append(@, "write")]
    /\ pc' = [pc EXCEPT ![p] = "call"]
    /\ UNCHANGED <<cfg_vars, sample_buffer, sampler, count, parameter_values,
                   tool_in, tool_run, ret>>

\* with open(self.param_buffer, "w+") as f: np.savetxt(...)
ToolWrite(p) ==
    /\ pc[p] = "write"
    /\ param_buffer' = WriteParams(param_buffer, parameter_values[p])
    /\ effects' = [effects EXCEPT ![p] = Append(@, "write")]
    /\ pc' = [pc EXCEPT ![p] = "call"]
    /\ UNCHANGED <<cfg_vars, sample_buffer, sampler, count, parameter_values,
                   tool_in, tool_run, ret>>

\* subprocess.call('source ' + self.script_path, shell = True): the script
\* starts, the caller blocks
ToolCall(p) ==
    /\ pc[p] = "call"
    /\ effects' = [effects EXCEPT ![p] = Append(@, "call")]
    /\ pc' = [pc EXCEPT ![p] = "running"]
    /\ UNCHANGED <<cfg_vars, file_vars, sampler, count, parameter_values,
                   tool_in, tool_run, ret>>

\* the script reads the parameter buffer
ScriptRead(p) ==
    /\ pc[p] = "running"
    /\ ~tool_in[p].exists
    /\ param_buffer.exists
    /\ tool_in' = [tool_in EXCEPT ![p] = param_buffer]
    /\ UNCHANGED <<cfg_vars, file_vars, pc, sampler, count, parameter_values,
                   tool_run, effects, ret>>

\* the script writes table to the sample buffer and exits with status 0;
\* subprocess.call returns
ScriptWriteTable(p, table) ==
    /\ pc[p] = "running"
    /\ tool_in[p].exists
    /\ sample_buffer' = table
    /\ tool_run' = [tool_run EXCEPT ![p] = Exited("0", TRUE)]
    /\ effects' = [effects EXCEPT ![p] = Append(@, "exit")]
    /\ pc' = [pc EXCEPT ![p] = "read"]
    /\ UNCHANGED <<cfg_vars, param_buffer, sampler, count, parameter_values,
                   tool_in, ret>>

\* a tool that keeps its contract
ScriptMeasure(p) == ScriptWriteTable(p, Measure(tool_in[p]))

\* any tool
ScriptWrite(p) == \E table \in ToolTables(tool_in[p]) : ScriptWriteTable(p, table)

\* the script ends without writing the sample buffer, with any exit status
ScriptFail(p) ==
    /\ pc[p] = "running"
    /\ \E code \in {"0", "1"} :
          tool_run' = [tool_run EXCEPT ![p] = Exited(code, FALSE)]
    /\ effects' = [effects EXCEPT ![p] = Append(@, "exit")]
    /\ pc' = [pc EXCEPT ![p] = "read"]
    /\ UNCHANGED <<cfg_vars, file_vars, sampler, count, parameter_values,
                   tool_in, ret>>

\* the loop over the lines after the header: values, or the ValueError of
\* float() on the first field that is no number
ParseRows(rows) ==
    IF \E i \in 1..Len(rows) : \E j \in 1..Len(rows[i]) : ~IsFloat(rows[i][j])
    THEN [error |-> "ValueError", values |-> <<>>]
    ELSE [error |-> "none",
          values |-> [i \in 1..Len(rows) |->
                        [j \in 1..Len(rows[i]) |-> Float(rows[i][j])]]]

\* attributes != list(self.attribute_names)
HeaderMismatch(file) == file.header # attribute_names

\* what the logger receives while file is read
ReadWarnings(file) ==
    IF file.exists /\ HeaderMismatch(file) THEN <<"warning">> ELSE <<>>

\* a reader that raises on a header mismatch
ReadSamplesStrict(file) ==
    IF ~file.exists THEN Raised("IOError")
    ELSE IF HeaderMismatch(file) THEN Raised("SchemaMismatch")
    ELSE LET parsed == ParseRows(file.rows)
         IN  IF parsed.error # "none" THEN Raised(parsed.error)
             ELSE Ok(MapMakeSample(parsed.values))

\* open(self.sample_buffer, "r") ... return map(self.make_sample, values)
ReadSamples(file) ==
    IF ~file.exists THEN Raised("IOError")
    ELSE LET parsed == ParseRows(file.rows)
         IN  IF parsed.error # "none" THEN Raised(parsed.error)
             ELSE Ok(MapMakeSample(parsed.values))

ToolRead(p) ==
    /\ pc[p] = "read"
    /\ effects' = [effects EXCEPT ![p] =
                      Append(@, "read") \o ReadWarnings(sample_buffer)]
    /\ Return(p, ReadSamples(sample_buffer))
    /\ UNCHANGED <<cfg_vars, file_vars, sampler, count, parameter_values,
                   tool_in, tool_run>>

\* the steps of a running ToolSampler.get_samples, with any tool
ToolStep(p) ==
    \/ ToolWrite(p)
    \/ ToolCall(p)
    \/ ScriptRead(p)
    \/ ScriptWrite(p)
    \/ ScriptFail(p)
    \/ ToolRead(p)

GetSamples(p, kind, n) ==
    \/ kind = "Gaussian" /\ GaussianGetSamples(p, n)
    \/ kind = "Kde" /\ KdeGetSamples(p, n)
    \/ kind = "Tool" /\ ToolGetSamples(p, n)

----------------------------------------------------------------------------
(* The sequential program: one caller, one get_samples at a time *)

Next ==
    \/ \E kind \in Kinds, n \in 0..MaxCount :
          GetSamples(1, kind, n) /\ UNCHANGED set_vars
    \/ ToolStep(1) /\ UNCHANGED set_vars

Spec == Init /\ [][Next]_vars

----------------------------------------------------------------------------
(* SamplerSet.get_samples, called by the single caller *)

\* the sample_counts a driver passes: shorter than, as long as and longer
\* than the sampler collection
CountSeqs == UNION {[1..len -> 0..MaxCount] : len \in 0..MaxCounts}

\* zip(self.samplers, sample_counts): as many pairs as the shorter has
ZipLen == Min(Len(samplers), Len(sample_counts))

\* the call starts: the comprehension is at its first pair
SetGetSamples(counts) ==
    /\ set_pc \in {"idle", "done"}
    /\ CanCall(1)
    /\ sample_counts' = counts
    /\ set_idx' = 1
    /\ set_ret' = NoRet
    /\ set_pc' = "next"
    /\ UNCHANGED <<cfg_vars, file_vars, call_vars>>

\* s.get_samples(c) for the next pair of the zip, or the list is returned
SetNext ==
    /\ set_pc = "next"
    /\ IF set_idx > ZipLen
       THEN /\ set_pc' = "done"
            /\ set_ret' = Ok(set_ret.samples)
            /\ UNCHANGED <<cfg_vars, file_vars, call_vars, sample_counts, set_idx>>
       ELSE /\ GetSamples(1, samplers[set_idx], sample_counts[set_idx])
            /\ set_pc' = "wait"
            /\ UNCHANGED <<sample_counts, set_idx, set_ret>>

\* the sampler's result is appended; what it raised leaves the comprehension
SetCollect ==
    /\ set_pc = "wait"
    /\ Done(1)
    /\ IF ret[1].status = "ok"
       THEN /\ set_ret' = [set_ret EXCEPT !.samples = Append(@, ret[1].samples)]
            /\ set_idx' = set_idx + 1
            /\ set_pc' = "next"
       ELSE /\ set_ret' = Raised(ret[1].status)
            /\ set_idx' = set_idx
            /\ set_pc' = "done"
    /\ UNCHANGED <<cfg_vars, file_vars, call_vars, sample_counts>>

NextSet ==
    \/ \E counts \in CountSeqs : SetGetSamples(counts)
    \/ SetNext
    \/ SetCollect
    \/ ToolStep(1) /\ UNCHANGED set_vars

SpecSet == Init /\ [][NextSet]_vars

\* C2: the list SamplerSet.get_samples returns is as long as sample_counts,
\* and its entry i holds sample_counts[i] samples.
C2_SetLengths ==
    (set_pc = "done" /\ set_ret.status = "ok") =>
        /\ Len(set_ret.samples) = Len(sample_counts)
        /\ \A i \in 1..Len(set_ret.samples) :
              i <= Len(sample_counts) => Len(set_ret.samples[i]) = sample_counts[i]

\* C3: SamplerSet.get_samples with a sample_counts whose length differs from
\* the number of samplers ends in an error and returns no results.
C3_MismatchIsError ==
    (set_pc = "done" /\ Len(sample_counts) # Len(samplers)) =>
        /\ set_ret.status # "ok"
        /\ set_ret.samples = <<>>

----------------------------------------------------------------------------
(* Properties of the sequential program *)

ToolDone(p) == Done(p) /\ sampler[p] = "Tool" /\ count[p] > 0

\* C1: get_samples(0) of every sampler returns the empty sequence in one
\* step that calls nothing and leaves both buffer files as they were: no
\* noise-model call, no write of param_buffer, no script run, no read of
\* sample_buffer.
C1_ZeroCountNoEffect ==
    [][(CanCall(1) /\ count'[1] = 0) =>
          /\ pc'[1] = "done"
          /\ ret'[1] = Ok(<<>>)
          /\ effects'[1] = <<>>
          /\ tool_run'[1] = NotRun
          /\ UNCHANGED file_vars]_vars

\* a ToolSampler.get_samples(0) that returned while both buffers hold the
\* data of an earlier call
C1_Witness ==
    /\ Done(1) /\ sampler[1] = "Tool" /\ count[1] = 0
    /\ ret[1] = Ok(<<>>)
    /\ param_buffer.exists /\ sample_buffer.exists

\* C4: every Sample a sampler returns has exactly the keys attribute_names
\* and constants.keys(), each constant key holding the constant's value.
C4_SampleKeys ==
    \A p \in Calls : (Done(p) /\ ret[p].status = "ok") =>
        \A i \in 1..Len(ret[p].samples) :
            LET attributes == ret[p].samples[i].attributes
            IN  /\ DOMAIN attributes = Range(attribute_names) \cup DOMAIN constants
                /\ \A k \in DOMAIN constants : attributes[k] = constants[k]

\* C5: KdeSampler.get_samples(count), count > 0, returns count samples in
\* which every constant attribute has its configured value (a constant name
\* takes no density lookup, so none can fail).
C5_KdeConstants ==
    \A p \in Calls : (Done(p) /\ sampler[p] = "Kde" /\ count[p] > 0) =>
        /\ ret[p].status = "ok"
        /\ Len(ret[p].samples) = count[p]
        /\ \A i \in 1..Len(ret[p].samples) : \A k \in DOMAIN constants :
              /\ k \in DOMAIN ret[p].samples[i].attributes
              /\ ret[p].samples[i].attributes[k] = constants[k]

\* C6: get_samples(count) returns exactly count samples or ends in an error,
\* for every sampler and whatever the tool left in sample_buffer.
C6_ExactCount ==
    \A p \in Calls : (Done(p) /\ ret[p].status = "ok") =>
        Len(ret[p].samples) = count[p]

\* the script of call p failed: a non-zero exit status, or no sample buffer
\* written
ToolFailed(p) == tool_run[p].code = "1" \/ ~tool_run[p].wrote

\* C7: a ToolSampler.get_samples(count), count > 0, whose tool run failed
\* reports a failure and returns no samples.
C7_FailureReported ==
    \A p \in Calls : (ToolDone(p) /\ ToolFailed(p)) =>
        /\ ret[p].status # "ok"
        /\ ret[p].samples = <<>>

\* the effects of a complete ToolSampler.get_samples, a warning apart
ToolOrder == <<"add_noise", "write", "call", "exit", "read">>

NoWarnings(seq) == SelectSeq(seq, LAMBDA e : e # "warning")

\* how many effects precede each position of the call
StepsBefore(position) ==
    CASE position = "write"   -> 1
      [] position = "call"    -> 2
      [] position = "running" -> 3
      [] position = "read"    -> 4
      [] position = "done"    -> 5

\* C8: a ToolSampler.get_samples(count), count > 0, perturbs, writes
\* param_buffer, runs the script, reads sample_buffer, in this order; from
\* the end of the write to the end of the script param_buffer holds exactly
\* the count vectors of this call, formatted, and the script reads these.
C8_StepOrder ==
    \A p \in Calls : (sampler[p] = "Tool" /\ count[p] > 0) =>
        /\ NoWarnings(effects[p]) = SubSeq(ToolOrder, 1, StepsBefore(pc[p]))
        /\ pc[p] = "write" => Len(parameter_values[p]) = count[p]
        /\ pc[p] \in {"call", "running"} =>
              /\ param_buffer.exists
              /\ param_buffer.rows = SaveTxt(parameter_values[p])
              /\ Len(param_buffer.rows) = count[p]
        /\ tool_in[p].exists =>
              /\ tool_in[p].rows = SaveTxt(parameter_values[p])
              /\ pc[p] \in {"running", "read", "done"}

\* the script of a call for 2 vectors runs on them, the sample buffer still
\* holding the rows of an earlier call of another size
C8_Witness ==
    /\ pc[1] = "running" /\ count[1] = 2
    /\ tool_in[1].exists /\ Len(tool_in[1].rows) = 2
    /\ sample_buffer.exists /\ Len(sample_buffer.rows) = 1

\* every field of every data row is a number
AllNumeric(file) ==
    \A i \in 1..Len(file.rows) : \A j \in 1..Len(file.rows[i]) :
        IsFloat(file.rows[i][j])

\* sample i is row i of file by position: value j under attribute_names[j],
\* as far as both go, a constant taking precedence
Positional(samples, file) ==
    /\ Len(samples) = Len(file.rows)
    /\ \A i \in 1..Len(samples) :
          \A j \in 1..Min(Len(attribute_names), Len(file.rows[i])) :
              attribute_names[j] \notin DOMAIN constants =>
                  /\ attribute_names[j] \in DOMAIN samples[i].attributes
                  /\ samples[i].attributes[attribute_names[j]]
                        = Float(file.rows[i][j])

MismatchRead(p) ==
    ToolDone(p) /\ sample_buffer.exists /\ HeaderMismatch(sample_buffer)

\* C9 as claimed: a sample buffer whose header differs from attribute_names
\* never makes get_samples fail; there is one warning and one sample per
\* data row, by position.
C9_MismatchNeverFails ==
    \A p \in Calls : MismatchRead(p) =>
        /\ ret[p].status = "ok"
        /\ Count(effects[p], "warning") = 1
        /\ Positional(ret[p].samples, sample_buffer)

\* C9 as amended: a sample buffer whose header differs from attribute_names
\* and whose data rows hold numbers only does not make get_samples fail;
\* there is one warning and one sample per data row, by position.  With a
\* field that is no number the call still warns once.
C9_MismatchTolerated ==
    \A p \in Calls : MismatchRead(p) =>
        /\ Count(effects[p], "warning") = 1
        /\ AllNumeric(sample_buffer) =>
              /\ ret[p].status = "ok"
              /\ Positional(ret[p].samples, sample_buffer)

\* a call that read two numeric rows under a foreign header
C9_Witness ==
    /\ MismatchRead(1) /\ AllNumeric(sample_buffer)
    /\ Len(sample_buffer.rows) = 2
    /\ ret[1].status = "ok" /\ Len(ret[1].samples) = 2
    /\ Count(effects[1], "warning") = 1

----------------------------------------------------------------------------
(* Two callers of ToolSampler.get_samples on the same buffer paths, their
   steps interleaved; the tool keeps its contract *)

NextConc ==
    \E p \in Calls :
        /\ \/ \E n \in 1..MaxCount : ToolGetSamples(p, n)
           \/ ToolWrite(p)
           \/ ToolCall(p)
           \/ ScriptRead(p)
           \/ ScriptMeasure(p)
           \/ ToolRead(p)
        /\ UNCHANGED set_vars

\* one configuration: two attributes and a constant of another name
InitConc ==
    /\ Init
    /\ attribute_names = <<"a", "b">>
    /\ DOMAIN constants = {"c"}

SpecConc == InitConc /\ [][NextConc]_vars

\* what get_samples returns when the tool measured the vectors values
SamplesOf(values) == ReadSamples(Measure(WriteParams(NoFile, values)))

\* C10: ToolSampler guards no step of get_samples: whatever the other call
\* is doing, a call can start, write param_buffer, start its script and
\* read sample_buffer.  (The interleaving the claim names is C10_Race.)
C10_NoGuard ==
    \A p \in Calls :
        /\ CanCall(p) => ENABLED ToolGetSamples(p, 1)
        /\ pc[p] = "write" => ENABLED ToolWrite(p)
        /\ pc[p] = "call" => ENABLED ToolCall(p)
        /\ pc[p] = "read" => ENABLED ToolRead(p)

\* call 1's param_buffer was overwritten by call 2 before the script of
\* call 1 read it, and call 1 returned the samples of call 2's vectors
C10_Race ==
    /\ Done(1) /\ count[1] > 0 /\ ret[1].status = "ok"
    /\ sampler[2] = "Tool" /\ count[2] > 0
    /\ tool_in[1].exists
    /\ tool_in[1].rows = SaveTxt(parameter_values[2])
    /\ tool_in[1].rows # SaveTxt(parameter_values[1])
    /\ ret[1] = SamplesOf(parameter_values[2])
    /\ ret[1] # SamplesOf(parameter_values[1])

====
